---- MODULE Spec2Model ----
(***************************************************************************)
(* Model of the Terraform Code Assistant (src/app.py): the session state   *)
(* of each browser session, the three button handlers (Generate with AI,   *)
(* Validate, Correct with AI), the code editor, the provisioning of the    *)
(* terraform executable and the shared terraform_project/main.tf file.     *)
(*                                                                         *)
(* Texts are TLA+ strings.  A TLA+ string cannot hold a backtick, so the   *)
(* backtick character is written "~" throughout (see Backtick).            *)
(***************************************************************************)
EXTENDS Integers, Sequences, FiniteSets, TLC

-----------------------------------------------------------------------------
(* Characters and Python string helpers                                     *)

\* The backtick character of the fence regex.
Backtick == "~"

\* Three backticks.
Fence == Backtick \o Backtick \o Backtick

\* The character class [a-zA-Z] of the fence regex.
Letters ==
    {"a","b","c","d","e","f","g","h","i","j","k","l","m",
     "n","o","p","q","r","s","t","u","v","w","x","y","z",
     "A","B","C","D","E","F","G","H","I","J","K","L","M",
     "N","O","P","Q","R","S","T","U","V","W","X","Y","Z"}

\* Characters outside ASCII are written with one ASCII character each that
\* the texts of the model do not otherwise use:
\* U+201C and U+201D, the curly double quotes,
LeftDoubleQuote == "{"
RightDoubleQuote == "}"

\* U+2018 and U+2019, the curly single quotes,
LeftSingleQuote == "["
RightSingleQuote == "]"

\* U+2014 the em-dash, U+2013 the en-dash,
EmDash == "%"
EnDash == "^"

\* U+00A0 the non-breaking space, and U+00E9 for any other such character.
Nbsp == "_"
EAcute == "@"

\* The characters str.strip() and the regex class \s remove: for a str,
\* both take Unicode whitespace, the non-breaking space included.
Whitespace == {" ", "\n", "\t", "\r", Nbsp}

\* s[i-1] of Python, as a one-character string ("" when out of range).
CharAt(s, i) == IF i >= 1 /\ i <= Len(s) THEN SubSeq(s, i, i) ELSE ""

\* s[i-1:] of Python.
From(s, i) == SubSeq(s, i, Len(s))

\* s.startswith(p, i-1)
StartsWithAt(s, p, i) ==
    /\ i + Len(p) - 1 <= Len(s)
    /\ SubSeq(s, i, i + Len(p) - 1) = p

\* s.startswith(p)
StartsWith(s, p) == StartsWithAt(s, p, 1)

\* Index of the first character at or after i that is not in class
\* (Len(s) + 1 when there is none): a greedy class* of the regex engine.
RECURSIVE SkipClass(_, _, _)
SkipClass(s, i, class) ==
    IF i <= Len(s) /\ CharAt(s, i) \in class
    THEN SkipClass(s, i + 1, class)
    ELSE i

\* Index of the last character at or before i that is not in class
\* (0 when there is none).
RECURSIVE SkipClassBack(_, _, _)
SkipClassBack(s, i, class) ==
    IF i >= 1 /\ CharAt(s, i) \in class
    THEN SkipClassBack(s, i - 1, class)
    ELSE i

\* str.strip()
strip(s) ==
    LET a == SkipClass(s, 1, Whitespace)
        b == SkipClassBack(s, Len(s), Whitespace)
    IN  IF a > b THEN "" ELSE SubSeq(s, a, b)

\* s.replace(old, new) for a one-character old.
RECURSIVE replace(_, _, _)
replace(s, old, new) ==
    IF s = "" THEN ""
    ELSE (IF CharAt(s, 1) = old THEN new ELSE CharAt(s, 1))
             \o replace(From(s, 2), old, new)

\* Faulty variant of sanitize whose second replacement writes the left
\* curly quote for the right one instead of the straight quote.
sanitize_curly(text) ==
    replace(replace(replace(replace(text,
        LeftDoubleQuote, "\""), RightDoubleQuote, LeftDoubleQuote),
        RightSingleQuote, "'"), EmDash, "-")

\* The sanitization of user_prompt, terraform_code and validation_result:
\* .replace(U+201C, '"').replace(U+201D, '"').replace(U+2019, "'")
\* .replace(U+2014, '-')
sanitize(text) ==
    replace(replace(replace(replace(text,
        LeftDoubleQuote, "\""), RightDoubleQuote, "\""),
        RightSingleQuote, "'"), EmDash, "-")

-----------------------------------------------------------------------------
(* re.search(r'```[a-zA-Z]*\n(.*?)\n```', response_content, re.DOTALL)      *)

\* Faulty variant of FindClose that takes the last closing fence: a greedy
\* (.*) in place of the lazy (.*?).
RECURSIVE FindLastClose(_, _)
FindLastClose(s, i) ==
    IF i + 3 > Len(s) THEN 0
    ELSE LET later == FindLastClose(s, i + 1)
         IN  IF later # 0 THEN later
             ELSE IF StartsWithAt(s, "\n" \o Fence, i) THEN i
             ELSE 0

\* Least index m >= i at which "\n```" starts, 0 when there is none:
\* the lazy (.*?) followed by \n```.
RECURSIVE FindClose(_, _)
FindClose(s, i) ==
    IF i + 3 > Len(s) THEN 0
    ELSE IF StartsWithAt(s, "\n" \o Fence, i) THEN i
    ELSE FindClose(s, i + 1)

\* The attempt of the regex engine to match at start index i:
\* [ok |-> FALSE] or the bounds of group 1.
MatchAt(s, i) ==
    IF ~StartsWithAt(s, Fence, i) THEN [ok |-> FALSE]
    ELSE LET k == SkipClass(s, i + 3, Letters)
         IN  IF CharAt(s, k) # "\n" THEN [ok |-> FALSE]
             ELSE LET m == FindClose(s, k + 1)
                  IN  IF m = 0 THEN [ok |-> FALSE]
                      ELSE [ok |-> TRUE, from |-> k + 1, to |-> m - 1]

\* The leftmost match, scanning start indices upward from i.
RECURSIVE SearchFrom(_, _)
SearchFrom(s, i) ==
    IF i > Len(s) THEN [ok |-> FALSE]
    ELSE IF MatchAt(s, i).ok THEN MatchAt(s, i)
    ELSE SearchFrom(s, i + 1)

\* code_match: found is the truth value of the match object, group1 is
\* code_match.group(1).
code_match(response_content) ==
    LET m == SearchFrom(response_content, 1)
    IN  IF m.ok
        THEN [found |-> TRUE,
              group1 |-> SubSeq(response_content, m.from, m.to)]
        ELSE [found |-> FALSE, group1 |-> ""]

-----------------------------------------------------------------------------
(* The fallback of both handlers when no fenced block is found              *)

\* re.sub(r'^```[a-zA-Z]*\s*', '', s)
StripFencePrefix(s) ==
    IF StartsWith(s, Fence)
    THEN From(s, SkipClass(s, SkipClass(s, 4, Letters), Whitespace))
    ELSE s

\* re.sub(r'```$', '', s): $ matches at the end and before a final newline.
StripFenceSuffix(s) ==
    LET n == Len(s)
    IN  IF n >= 3 /\ SubSeq(s, n - 2, n) = Fence
        THEN SubSeq(s, 1, n - 3)
        ELSE IF n >= 4 /\ SubSeq(s, n - 3, n) = Fence \o "\n"
        THEN SubSeq(s, 1, n - 4) \o "\n"
        ELSE s

\* cleaned_content of the fallback branch, after its final strip().
cleaned_content(response_content) ==
    strip(StripFenceSuffix(StripFencePrefix(strip(response_content))))

-----------------------------------------------------------------------------
(* Literals of the program                                                  *)

\* cloud_provider on the first run of a session: the first selectbox option.
cloud_provider == "AWS"

\* The initial terraform_code of a session.
Placeholder ==
    "# Describe your " \o cloud_provider
        \o " infrastructure above and click \"Generate with AI\""

\* terraform_code when the model returned nothing (Generate handler).
NoContent == "# AI returned no content."

\* validation_result when the model returned nothing (Generate handler).
FailedToGenerate == "Failed to generate code."

\* validation_result after a successful validate (its leading emoji is
\* not representable and is left out).
ValidationSuccessful == "Validation Successful: The configuration is valid."

\* The text put before the stderr of a failed terraform init.
InitErrorPrefix == "An error occurred during ~terraform init~:\n"

\* validation_result after a correction (leading emoji left out).
CorrectionAttempted ==
    "AI has attempted to correct the code. Please validate again."

\* raw_response_debug values of the Generate handler.
DebugMalformed == "API returned an empty or malformed completion object."
DebugAuth == "Authentication failed. Check your API key."
DebugGeneral == "General API communication error: "

\* st.error of the except openai.AuthenticationError clauses.
AuthenticationErrorMessage ==
    "Authentication Error: The OpenAI API key is invalid or has expired."

\* st.error of the except Exception clauses, before str(e).
GenerateErrorPrefix == "An error occurred while communicating with OpenAI: "
CorrectErrorPrefix == "An error occurred during correction: "

\* str(terraform_exe): the absolute path get_terraform_executable returns.
TerraformExe == "terraform_1.8.5/terraform"

-----------------------------------------------------------------------------
(* Inputs from the environment                                              *)

\* The browser sessions of the one server process.
Sessions == {"s1", "s2"}

\* Length of the transport script of one action: the outcome the model
\* service would give to the 1st, 2nd, ... completion request.
MaxAttempts == 3

\* Outcomes of one completion request: a completion object, an
\* openai.AuthenticationError, any other exception.
Outcomes == {"ok", "auth", "error"}

\* The transport script of a service that fails the first k requests with
\* the exception kind and answers the later ones.
Script(k, kind) == [i \in 1..MaxAttempts |-> IF i <= k THEN kind ELSE "ok"]

\* Transport scripts: an outage of 0 to MaxAttempts requests.
Transports ==
    {Script(k, kind) : k \in 0..MaxAttempts, kind \in Outcomes \ {"ok"}}

\* str(e) of the other exceptions.
ErrorText == "Connection error."

\* Message contents the model may return.
Contents == {"~~~hcl\nA = 1\n~~~", "B = 2"}

\* Completion objects: completion.choices as the sequence of the message
\* contents; no choices, and a first choice with empty content, included.
Completions == {<<>>, <<"">>} \cup {<<c>> : c \in Contents}

\* The completions a transport script can deliver to its first request.
Delivered(transport) ==
    IF transport[1] = "ok" THEN Completions ELSE {<<>>}

\* Texts the user may type into the prompt box.
Prompts == {"", "An S3 bucket for logging and a t3.small EC2 instance"}

\* Texts the user may leave in the code editor.
EditorTexts == {"", "# todo", "C = 3"}

\* Exit codes of the terraform subcommands.
ExitCodes == {0, 1}

\* Standard error texts of the terraform subcommands.
Stderrs == {"", "network unreachable"}

\* st.secrets["OPENAI_API_KEY"]: absent ("") or present.
ApiKeys == {"", "sk-test"}

-----------------------------------------------------------------------------
(* State                                                                    *)

VARIABLES
    session_state,          \* st.session_state of each session
    openai_api_key,         \* the configured credential, "" when absent
    terraform_cache,        \* cached get_terraform_executable(), "" when none
    terraform_exe_is_file,  \* whether the terraform executable is on disk
    main_tf,                \* terraform_project/main.tf: <<>> or <<its text>>
    pc,                     \* position of each session's script run
    run,                    \* record of each session's current or last Validate
    event,                  \* what the last script run did
    raw,                    \* the pieces of a message content put to extraction
    extracted,              \* <<>>, or <<the drafts extracted from raw>>
    typed,                  \* the characters of a text the user has typed
    sanitized               \* <<>>, or <<the typed text as sent to the model>>

vars == <<session_state, openai_api_key, terraform_cache,
          terraform_exe_is_file, main_tf, pc, run, event, raw, extracted,
          typed, sanitized>>

\* The session state after the initialisation of a new session.
NewSession ==
    [terraform_code |-> Placeholder,
     validation_result |-> "",
     has_errors |-> FALSE,
     validated |-> FALSE,
     raw_response_debug |-> ""]

\* The record of a session that has not run Validate.
\* written: what it wrote to main.tf (<<>> nothing, <<text>> the text);
\* calls: the terraform subcommands it has run, in order.
NoRun == [written |-> <<>>, calls |-> <<>>]

\* The event of a step: the session, the button or subcommand, the branch
\* taken, the completion requests issued, the transport script given, the
\* exit code and stderr of the subcommand, the kinds of message shown and
\* the text an except clause of the handler showed ("" when none ran).
\* tick alternates so that every step changes the event.
Event(s, action, outcome, requests, transport, rc, stderr, ui) ==
    [session |-> s, action |-> action, outcome |-> outcome,
     requests |-> requests, transport |-> transport,
     rc |-> rc, stderr |-> stderr, ui |-> ui, except_message |-> "",
     tick |-> 1 - event.tick]

\* The transport field of steps that are given no transport script.
NoTransport == <<>>

-----------------------------------------------------------------------------
(* Provisioning of the terraform executable                                 *)

\* setup_terraform_and_show_status() at the top of a script run, download
\* telling whether a download of the release would succeed:
\* terraform_executable_path ("" for None) and the cache and disk after it.
setup_terraform_and_show_status(cache, is_file, download) ==
    IF cache # ""
    THEN [path |-> cache, cache |-> cache, is_file |-> is_file]
    ELSE IF is_file \/ download
    THEN [path |-> TerraformExe, cache |-> TerraformExe, is_file |-> TRUE]
    ELSE [path |-> "", cache |-> "", is_file |-> FALSE]

\* The outcomes a download may have in a script run: none is attempted
\* when a path is cached or the executable is on disk.
Downloads(cache, is_file) ==
    IF cache = "" /\ ~is_file THEN BOOLEAN ELSE {FALSE}

\* Faulty variant of tool_unavailable that trusts a cached path without
\* looking at the disk.
tool_unavailable_path_only(setup) == setup.path = ""

\* not terraform_executable_path or not Path(...).is_file()
tool_unavailable(setup) == setup.path = "" \/ ~setup.is_file

-----------------------------------------------------------------------------
(* Generate with AI                                                         *)

\* Variant of completions_create with a retry loop of MaxAttempts requests.
completions_create_retrying(transport) ==
    LET good == {i \in 1..MaxAttempts : transport[i] = "ok"}
        n == IF good = {} THEN MaxAttempts
             ELSE CHOOSE i \in good : \A j \in good : i <= j
    IN  [requests |-> n, result |-> transport[n]]

\* client.chat.completions.create(...): one request, whose outcome is the
\* first of the transport script.
completions_create(transport) == [requests |-> 1, result |-> transport[1]]

\* not (completion.choices and ...message and ...message.content)
malformed(completion) == completion = <<>> \/ completion[1] = ""

\* response_content of both handlers.
response_content(completion) ==
    IF malformed(completion) THEN "" ELSE completion[1]

\* The three branches after the completion call of the Generate handler.
GenerateCommit(ss, completion) ==
    LET rc == response_content(completion)
        m == code_match(rc)
        base == [ss EXCEPT !.raw_response_debug =
                              IF malformed(completion) THEN DebugMalformed
                              ELSE rc]
    IN  IF m.found
        THEN [base EXCEPT !.terraform_code = strip(m.group1),
                          !.validation_result = "",
                          !.has_errors = FALSE,
                          !.validated = FALSE,
                          !.raw_response_debug = ""]
        ELSE IF rc # ""
        THEN [base EXCEPT !.terraform_code = cleaned_content(rc),
                          !.validation_result = "",
                          !.has_errors = FALSE,
                          !.validated = FALSE]
        ELSE [base EXCEPT !.terraform_code = NoContent,
                          !.validation_result = FailedToGenerate,
                          !.has_errors = TRUE,
                          !.validated = FALSE]

\* Faulty variant of GenerateUi that warns only when the fallback removed a
\* fence-like prefix or suffix.
GenerateUiIfStripped(completion) ==
    (IF malformed(completion) THEN {"error"} ELSE {})
        \cup (IF ~malformed(completion)
                 /\ ~code_match(response_content(completion)).found
                 /\ cleaned_content(response_content(completion))
                        # strip(response_content(completion))
              THEN {"warning"} ELSE {})

\* The messages the three branches show: st.error / st.warning.
GenerateUi(completion) ==
    (IF malformed(completion) THEN {"error"} ELSE {})
        \cup (IF ~malformed(completion)
                 /\ ~code_match(response_content(completion)).found
              THEN {"warning"} ELSE {})

\* Faulty variant of GenerateExcept that also discards the draft and the
\* verdict.
GenerateExceptClearing(ss, result) ==
    [ss EXCEPT !.terraform_code = "",
               !.validation_result = "",
               !.has_errors = FALSE,
               !.validated = FALSE,
               !.raw_response_debug = DebugGeneral \o ErrorText]

\* The except clauses of the Generate handler.
GenerateExcept(ss, result) ==
    [ss EXCEPT !.raw_response_debug =
                  IF result = "auth" THEN DebugAuth
                  ELSE DebugGeneral \o ErrorText]

\* st.error of the except clauses of the Generate handler.
GenerateExceptMessage(result) ==
    IF result = "auth" THEN AuthenticationErrorMessage
    ELSE GenerateErrorPrefix \o ErrorText

\* The handler of the Generate with AI button.
GenerateHandler(ss, key, user_prompt, transport, completion) ==
    LET s0 == [ss EXCEPT !.raw_response_debug = ""]
    IN  IF key = ""
        THEN [state |-> s0, ui |-> {"error"}, requests |-> 0,
              outcome |-> "no_key", except_message |-> ""]
        ELSE IF user_prompt = ""
        THEN [state |-> s0, ui |-> {"warning"}, requests |-> 0,
              outcome |-> "no_prompt", except_message |-> ""]
        ELSE LET call == completions_create(transport)
             IN  IF call.result # "ok"
                 THEN [state |-> GenerateExcept(s0, call.result),
                       ui |-> {"error"}, requests |-> call.requests,
                       outcome |-> call.result,
                       except_message |->
                           GenerateExceptMessage(call.result)]
                 ELSE [state |-> GenerateCommit(s0, completion),
                       ui |-> GenerateUi(completion),
                       requests |-> call.requests,
                       outcome |-> IF malformed(completion)
                                   THEN "malformed" ELSE "ok",
                       except_message |-> ""]

-----------------------------------------------------------------------------
(* Correct with AI                                                          *)

\* correct_errors_disabled
correct_errors_disabled(ss) == ~(ss.validated /\ ss.has_errors)

\* The statements after the completion call of the Correct handler.
CorrectCommit(ss, completion) ==
    LET rc == response_content(completion)
        m == code_match(rc)
    IN  [ss EXCEPT !.terraform_code =
                      IF m.found THEN strip(m.group1)
                      ELSE cleaned_content(rc),
                   !.validation_result = CorrectionAttempted,
                   !.has_errors = FALSE,
                   !.validated = FALSE]

\* The messages the Correct handler shows after the completion call.
CorrectUi(completion) ==
    (IF malformed(completion) THEN {"error"} ELSE {})
        \cup (IF ~code_match(response_content(completion)).found
              THEN {"warning"} ELSE {})

\* The except clauses of the Correct handler: st.error only.
CorrectExcept(ss, result) == ss

\* Faulty variant of CorrectExceptMessage with the one clause
\* except Exception for every exception.
CorrectExceptMessageUnclassified(result) == CorrectErrorPrefix \o ErrorText

\* st.error of the except clauses of the Correct handler.
CorrectExceptMessage(result) ==
    IF result = "auth" THEN AuthenticationErrorMessage
    ELSE CorrectErrorPrefix \o ErrorText

\* Faulty variant of CorrectHandler without the credential guard.
CorrectHandlerUnguarded(ss, key, transport, completion) ==
    LET call == completions_create(transport)
    IN  IF call.result # "ok"
        THEN [state |-> CorrectExcept(ss, call.result),
              ui |-> {"error"}, requests |-> call.requests,
              outcome |-> call.result,
              except_message |-> CorrectExceptMessage(call.result)]
        ELSE [state |-> CorrectCommit(ss, completion),
              ui |-> CorrectUi(completion),
              requests |-> call.requests,
              outcome |-> IF malformed(completion)
                          THEN "malformed" ELSE "ok",
              except_message |-> ""]

\* The handler of the Correct with AI button.
CorrectHandler(ss, key, transport, completion) ==
    IF key = ""
    THEN [state |-> ss, ui |-> {"error"}, requests |-> 0,
          outcome |-> "no_key", except_message |-> ""]
    ELSE LET call == completions_create(transport)
         IN  IF call.result # "ok"
             THEN [state |-> CorrectExcept(ss, call.result),
                   ui |-> {"error"}, requests |-> call.requests,
                   outcome |-> call.result,
                   except_message |-> CorrectExceptMessage(call.result)]
             ELSE [state |-> CorrectCommit(ss, completion),
                   ui |-> CorrectUi(completion),
                   requests |-> call.requests,
                   outcome |-> IF malformed(completion)
                               THEN "malformed" ELSE "ok",
                   except_message |-> ""]

-----------------------------------------------------------------------------
(* Validate                                                                 *)

\* Faulty variant of validate_disabled without the test for a leading '#'.
validate_disabled_if_empty(ss) == ss.terraform_code = ""

\* validate_disabled
validate_disabled(ss) ==
    ss.terraform_code = "" \/ StartsWith(ss.terraform_code, "#")

\* st.session_state.validated = True, the first statement of the else branch.
ValidateEnter(ss) == [ss EXCEPT !.validated = TRUE]

\* Faulty variant of InitFailed that stores the stderr without the prefix.
InitFailedNoPrefix(ss, stderr) ==
    [ss EXCEPT !.validation_result = stderr, !.has_errors = TRUE]

\* The branch for a non-zero return code of terraform init.
InitFailed(ss, stderr) ==
    [ss EXCEPT !.validation_result = InitErrorPrefix \o stderr,
               !.has_errors = TRUE]

\* Faulty variant of ValidateResult that decides on the presence of stderr
\* text instead of the return code.
ValidateResultByStderr(ss, returncode, stderr) ==
    IF stderr = ""
    THEN [ss EXCEPT !.validation_result = ValidationSuccessful,
                    !.has_errors = FALSE]
    ELSE [ss EXCEPT !.validation_result = stderr,
                    !.has_errors = TRUE]

\* The two branches on the return code of terraform validate.
ValidateResult(ss, returncode, stderr) ==
    IF returncode = 0
    THEN [ss EXCEPT !.validation_result = ValidationSuccessful,
                    !.has_errors = FALSE]
    ELSE [ss EXCEPT !.validation_result = stderr,
                    !.has_errors = TRUE]

-----------------------------------------------------------------------------
(* Steps                                                                    *)

\* The top of every script run: provisioning with the given download luck.
Provision(download) ==
    LET setup == setup_terraform_and_show_status(
                     terraform_cache, terraform_exe_is_file, download)
    IN  /\ terraform_cache' = setup.cache
        /\ terraform_exe_is_file' = setup.is_file

\* The user changes the text of the code editor: a script run without a
\* button, in which the text area's value is stored as terraform_code.
Edit(s) ==
    \E text \in EditorTexts,
       download \in Downloads(terraform_cache, terraform_exe_is_file) :
        /\ pc[s] = "idle"
        /\ text # session_state[s].terraform_code
        /\ Provision(download)
        /\ session_state' =
               [session_state EXCEPT ![s].terraform_code = text]
        /\ event' = Event(s, "edit", "ok", 0, NoTransport, 0, "", {})
        /\ UNCHANGED <<raw, extracted, typed, sanitized,
                           openai_api_key, main_tf, pc, run>>

\* A click on Generate with AI: the handler, then st.rerun().
Generate(s) ==
    \E user_prompt \in Prompts, transport \in Transports,
       download \in Downloads(terraform_cache, terraform_exe_is_file) :
      \E completion \in Delivered(transport) :
        LET r == GenerateHandler(session_state[s], openai_api_key,
                                 user_prompt, transport, completion)
        IN  /\ pc[s] = "idle"
            /\ Provision(download)
            /\ session_state' = [session_state EXCEPT ![s] = r.state]
            /\ event' = [Event(s, "generate", r.outcome, r.requests,
                               transport, 0, "", r.ui)
                             EXCEPT !.except_message = r.except_message]
            /\ UNCHANGED <<raw, extracted, typed, sanitized,
                           openai_api_key, main_tf, pc, run>>

\* A click on Correct with AI (enabled only after a failed validation):
\* the handler, then st.rerun().
Correct(s) ==
    \E transport \in Transports,
       download \in Downloads(terraform_cache, terraform_exe_is_file) :
      \E completion \in Delivered(transport) :
        LET r == CorrectHandler(session_state[s], openai_api_key,
                                transport, completion)
        IN  /\ pc[s] = "idle"
            /\ ~correct_errors_disabled(session_state[s])
            /\ Provision(download)
            /\ session_state' = [session_state EXCEPT ![s] = r.state]
            /\ event' = [Event(s, "correct", r.outcome, r.requests,
                               transport, 0, "", r.ui)
                             EXCEPT !.except_message = r.except_message]
            /\ UNCHANGED <<raw, extracted, typed, sanitized,
                           openai_api_key, main_tf, pc, run>>

\* A click on Validate while the executable is unavailable: the cache is
\* cleared and the script reruns, provisioning once more.
ValidateUnavailable(s) ==
    \E download \in Downloads(terraform_cache, terraform_exe_is_file),
       again \in BOOLEAN :
        LET setup == setup_terraform_and_show_status(
                         terraform_cache, terraform_exe_is_file, download)
            rerun == setup_terraform_and_show_status(
                         "", setup.is_file, again)
        IN  /\ pc[s] = "idle"
            /\ ~validate_disabled(session_state[s])
            /\ tool_unavailable(setup)
            /\ terraform_cache' = rerun.cache
            /\ terraform_exe_is_file' = rerun.is_file
            /\ event' = Event(s, "validate", "unavailable", 0,
                              NoTransport, 0, "", {"error"})
            /\ UNCHANGED <<session_state, openai_api_key, main_tf, pc, run,
                           raw, extracted, typed, sanitized>>

\* A click on Validate with the executable available, up to the start of
\* terraform init: validated is set, the directory made and main.tf
\* written; os.makedirs / open may raise OSError, which ends the run.
ValidateBegin(s) ==
    \E download \in Downloads(terraform_cache, terraform_exe_is_file),
       raises \in BOOLEAN :
        LET setup == setup_terraform_and_show_status(
                         terraform_cache, terraform_exe_is_file, download)
            code == session_state[s].terraform_code
        IN  /\ pc[s] = "idle"
            /\ ~validate_disabled(session_state[s])
            /\ ~tool_unavailable(setup)
            /\ terraform_cache' = setup.cache
            /\ terraform_exe_is_file' = setup.is_file
            /\ session_state' =
                   [session_state EXCEPT ![s] = ValidateEnter(@)]
            /\ IF raises
               THEN /\ UNCHANGED <<main_tf, pc>>
                    /\ run' = [run EXCEPT ![s] = NoRun]
                    /\ event' = Event(s, "validate", "exception", 0,
                                      NoTransport, 0, "", {"exception"})
               ELSE /\ main_tf' = <<code>>
                    /\ pc' = [pc EXCEPT ![s] = "init"]
                    /\ run' = [run EXCEPT ![s] =
                                  [written |-> <<code>>, calls |-> <<>>]]
                    /\ event' = Event(s, "validate", "written", 0,
                                      NoTransport, 0, "", {})
            /\ UNCHANGED <<raw, extracted, typed, sanitized, openai_api_key>>

\* Faulty variant of ValidateInit that goes on to terraform validate after
\* a failed terraform init as well.
ValidateInitIgnoringExit(s) ==
    \E returncode \in ExitCodes, stderr \in Stderrs, raises \in BOOLEAN :
        /\ pc[s] = "init"
        /\ IF raises
           THEN /\ pc' = [pc EXCEPT ![s] = "idle"]
                /\ UNCHANGED <<session_state, run>>
                /\ event' = Event(s, "init", "exception", 0,
                                  NoTransport, 0, "", {"exception"})
           ELSE /\ run' = [run EXCEPT ![s].calls = Append(@, "init")]
                /\ event' = Event(s, "init", "exit", 0,
                                  NoTransport, returncode, stderr, {})
                /\ pc' = [pc EXCEPT ![s] = "validate"]
                /\ IF returncode # 0
                   THEN session_state' = [session_state EXCEPT
                                             ![s] = InitFailed(@, stderr)]
                   ELSE UNCHANGED session_state
        /\ UNCHANGED <<raw, extracted, typed, sanitized,
                       openai_api_key, terraform_cache,
                       terraform_exe_is_file, main_tf>>

\* subprocess.run([..., "init", ...]) of the session's Validate and the
\* branch on its return code; launching may raise OSError.
ValidateInit(s) ==
    \E returncode \in ExitCodes, stderr \in Stderrs, raises \in BOOLEAN :
        /\ pc[s] = "init"
        /\ IF raises
           THEN /\ pc' = [pc EXCEPT ![s] = "idle"]
                /\ UNCHANGED <<session_state, run>>
                /\ event' = Event(s, "init", "exception", 0,
                                  NoTransport, 0, "", {"exception"})
           ELSE /\ run' = [run EXCEPT ![s].calls = Append(@, "init")]
                /\ event' = Event(s, "init", "exit", 0,
                                  NoTransport, returncode, stderr, {})
                /\ IF returncode # 0
                   THEN /\ session_state' = [session_state EXCEPT
                                                ![s] = InitFailed(@, stderr)]
                        /\ pc' = [pc EXCEPT ![s] = "idle"]
                   ELSE /\ pc' = [pc EXCEPT ![s] = "validate"]
                        /\ UNCHANGED session_state
        /\ UNCHANGED <<raw, extracted, typed, sanitized,
                       openai_api_key, terraform_cache,
                       terraform_exe_is_file, main_tf>>

\* subprocess.run([..., "validate", ...]) of the session's Validate and
\* the branch on its return code; launching may raise OSError.
ValidateRun(s) ==
    \E returncode \in ExitCodes, stderr \in Stderrs, raises \in BOOLEAN :
        /\ pc[s] = "validate"
        /\ pc' = [pc EXCEPT ![s] = "idle"]
        /\ IF raises
           THEN /\ UNCHANGED <<session_state, run>>
                /\ event' = Event(s, "validate_cmd", "exception", 0,
                                  NoTransport, 0, "", {"exception"})
           ELSE /\ run' = [run EXCEPT ![s].calls = Append(@, "validate")]
                /\ session_state' =
                       [session_state EXCEPT
                           ![s] = ValidateResult(@, returncode, stderr)]
                /\ event' = Event(s, "validate_cmd", "exit", 0,
                                  NoTransport, returncode, stderr, {})
        /\ UNCHANGED <<raw, extracted, typed, sanitized,
                       openai_api_key, terraform_cache,
                       terraform_exe_is_file, main_tf>>

\* The terraform executable disappears from the disk of the host.
ExecutableLost ==
    /\ terraform_exe_is_file
    /\ terraform_exe_is_file' = FALSE
    /\ UNCHANGED <<session_state, openai_api_key, terraform_cache,
                   main_tf, pc, run, event, raw, extracted,
                   typed, sanitized>>

-----------------------------------------------------------------------------
(* Specifications                                                           *)

\* The event before any step.
NoEvent ==
    [session |-> "", action |-> "none", outcome |-> "",
     requests |-> 0, transport |-> NoTransport,
     rc |-> 0, stderr |-> "", ui |-> {}, except_message |-> "", tick |-> 0]

\* The server has started; no session has interacted yet.
Init ==
    /\ session_state = [s \in Sessions |-> NewSession]
    /\ openai_api_key \in ApiKeys
    /\ terraform_cache = ""
    /\ terraform_exe_is_file \in BOOLEAN
    /\ main_tf = <<>>
    /\ pc = [s \in Sessions |-> "idle"]
    /\ run = [s \in Sessions |-> NoRun]
    /\ event = NoEvent
    /\ raw = <<>>
    /\ extracted = <<>>
    /\ typed = <<>>
    /\ sanitized = <<>>

\* The session of the one-user specification.
Solo == {"s1"}

Next ==
    \/ \E s \in Solo : Edit(s)
    \/ \E s \in Solo : Generate(s)
    \/ \E s \in Solo : Correct(s)
    \/ \E s \in Solo : ValidateUnavailable(s)
    \/ \E s \in Solo : ValidateBegin(s)
    \/ \E s \in Solo : ValidateInit(s)
    \/ \E s \in Solo : ValidateRun(s)
    \/ ExecutableLost

\* One user: every handler runs to completion before the next click.
Spec == Init /\ [][Next]_vars

-----------------------------------------------------------------------------
(* Two users validating at once                                             *)

\* The draft a Generate leaves in a new session for a message content.
Generated(content) == GenerateCommit(NewSession, <<content>>)

\* Two sessions that have generated different drafts, with the credential
\* configured and the executable provisioned.
InitShared ==
    /\ session_state \in
           {f \in [Sessions -> {Generated(c) : c \in Contents}] :
               f["s1"].terraform_code # f["s2"].terraform_code}
    /\ openai_api_key = "sk-test"
    /\ terraform_cache = TerraformExe
    /\ terraform_exe_is_file = TRUE
    /\ main_tf = <<>>
    /\ pc = [s \in Sessions |-> "idle"]
    /\ run = [s \in Sessions |-> NoRun]
    /\ event = NoEvent
    /\ raw = <<>>
    /\ extracted = <<>>
    /\ typed = <<>>
    /\ sanitized = <<>>

NextShared ==
    \/ \E s \in Sessions : ValidateBegin(s)
    \/ \E s \in Sessions : ValidateInit(s)
    \/ \E s \in Sessions : ValidateRun(s)

\* Each session runs its script in a thread of its own; the Validate
\* handlers of two sessions interleave at the file write and at each
\* subprocess.
SpecShared == InitShared /\ [][NextShared]_vars

-----------------------------------------------------------------------------
(* The extraction on its own                                                *)

\* The most pieces a message content is assembled from.
MaxPieces == 8

\* The pieces: a fence marker, a newline, a letter, a space.
Pieces == {Fence, "\n", "a", " "}

\* The message content made of a sequence of pieces.
RECURSIVE Join(_)
Join(pieces) ==
    IF pieces = <<>> THEN "" ELSE Head(pieces) \o Join(Tail(pieces))

\* The message content put to the extraction.
content == Join(raw)

\* A session in which a validation has failed, the state Correct starts in.
FailedSession ==
    ValidateResult(ValidateEnter(Generated("B = 2")), 1, "network unreachable")

\* One session and an empty message content about to be assembled.
InitExtract ==
    /\ session_state = [s \in Sessions |-> NewSession]
    /\ openai_api_key = "sk-test"
    /\ terraform_cache = ""
    /\ terraform_exe_is_file = TRUE
    /\ main_tf = <<>>
    /\ pc = [s \in Sessions |-> "idle"]
    /\ run = [s \in Sessions |-> NoRun]
    /\ event = NoEvent
    /\ raw = <<>>
    /\ extracted = <<>>
    /\ typed = <<>>
    /\ sanitized = <<>>

\* The message content grows by one piece.
Receive ==
    \E piece \in Pieces :
        /\ extracted = <<>>
        /\ Len(raw) < MaxPieces
        /\ raw' = Append(raw, piece)
        /\ UNCHANGED <<session_state, openai_api_key, terraform_cache,
                       terraform_exe_is_file, main_tf, pc, run, event,
                       extracted, typed, sanitized>>

\* The statements after the completion call of both handlers, applied to a
\* completion with this message content: the drafts they store and the
\* kinds of message they show.
Extract ==
    /\ extracted = <<>>
    /\ extracted' =
           <<[generate |->
                  GenerateCommit(NewSession, <<content>>).terraform_code,
              correct |->
                  CorrectCommit(FailedSession, <<content>>).terraform_code,
              generate_ui |-> GenerateUi(<<content>>),
              correct_ui |-> CorrectUi(<<content>>)]>>
    /\ UNCHANGED <<session_state, openai_api_key, terraform_cache,
                   terraform_exe_is_file, main_tf, pc, run, event, raw,
                   typed, sanitized>>

NextExtract == Receive \/ Extract

SpecExtract == InitExtract /\ [][NextExtract]_vars

-----------------------------------------------------------------------------
(* The extraction of contents with blanks in their fences                   *)

\* The most pieces such a message content is assembled from.
MaxSpaced == 7

\* The pieces: those of Pieces and a non-breaking space.
SpacedPieces == {Fence, "\n", "a", " ", Nbsp}

\* The message content grows by one piece.
ReceiveSpaced ==
    \E piece \in SpacedPieces :
        /\ extracted = <<>>
        /\ Len(raw) < MaxSpaced
        /\ raw' = Append(raw, piece)
        /\ UNCHANGED <<session_state, openai_api_key, terraform_cache,
                       terraform_exe_is_file, main_tf, pc, run, event,
                       extracted, typed, sanitized>>

NextSpaced == ReceiveSpaced \/ Extract

SpecSpaced == InitExtract /\ [][NextSpaced]_vars

-----------------------------------------------------------------------------
(* The sanitization on its own                                              *)

\* The most characters a typed text has.
MaxTyped == 4

\* The characters the user may type: the characters the sanitization names,
\* their straight counterparts, and others inside and outside ASCII.
TypedChars ==
    {LeftDoubleQuote, RightDoubleQuote, LeftSingleQuote, RightSingleQuote,
     EmDash, EnDash, Nbsp, EAcute, "\"", "'", "-", "a"}

\* The text the user has typed (a prompt, or a draft in the code editor).
text == Join(typed)

\* One session and an empty text about to be typed.
InitSanitize ==
    /\ session_state = [s \in Sessions |-> NewSession]
    /\ openai_api_key = "sk-test"
    /\ terraform_cache = ""
    /\ terraform_exe_is_file = TRUE
    /\ main_tf = <<>>
    /\ pc = [s \in Sessions |-> "idle"]
    /\ run = [s \in Sessions |-> NoRun]
    /\ event = NoEvent
    /\ raw = <<>>
    /\ extracted = <<>>
    /\ typed = <<>>
    /\ sanitized = <<>>

\* The user types one more character.
Type ==
    \E char \in TypedChars :
        /\ sanitized = <<>>
        /\ Len(typed) < MaxTyped
        /\ typed' = Append(typed, char)
        /\ UNCHANGED <<session_state, openai_api_key, terraform_cache,
                       terraform_exe_is_file, main_tf, pc, run, event,
                       raw, extracted, sanitized>>

\* The first statement of the try block of both handlers, on this text:
\* the text that goes into the messages of the completion request.
Sanitize ==
    /\ sanitized = <<>>
    /\ sanitized' = <<sanitize(text)>>
    /\ UNCHANGED <<session_state, openai_api_key, terraform_cache,
                   terraform_exe_is_file, main_tf, pc, run, event,
                   raw, extracted, typed>>

NextSanitize == Type \/ Sanitize

SpecSanitize == InitSanitize /\ [][NextSanitize]_vars

-----------------------------------------------------------------------------
(* Vocabulary of the properties                                             *)

\* The step just taken is a script run of session s for the given button
\* or subcommand.
Ran(s, action) ==
    /\ event'.tick # event.tick
    /\ event'.session = s
    /\ event'.action = action

\* The verdict fields of a session state.
Verdict(ss) == <<ss.validation_result, ss.has_errors, ss.validated>>

\* The step leaves the draft and the verdict of session s as they were.
DraftAndVerdictKept(s) ==
    /\ session_state'[s].terraform_code = session_state[s].terraform_code
    /\ Verdict(session_state'[s]) = Verdict(session_state[s])

\* The last step was the given subcommand of session s returning.
Exited(s, action) ==
    /\ event.session = s
    /\ event.action = action
    /\ event.outcome = "exit"

-----------------------------------------------------------------------------
(* C1: a change of the draft invalidates the verdict                        *)

\* The session holds the verdict of a Validate that ran both subcommands.
HasVerdict(s) ==
    /\ session_state[s].validated
    /\ run[s].calls = <<"init", "validate">>

\* C1 (as claimed): every step that changes the terraform_code of a session
\* holding a verdict -- an edit in the code editor, a Generate or a Correct
\* that yields code -- leaves validated = FALSE.
C1_EditInvalidatesVerdict ==
    [][\A s \in Sessions :
          /\ HasVerdict(s)
          /\ session_state'[s].terraform_code
                 # session_state[s].terraform_code
          => ~session_state'[s].validated]_vars

-----------------------------------------------------------------------------
(* C2: a failed terraform init                                              *)

\* C2 (as claimed): when terraform init has just exited non-zero, the
\* Validate is over without a validate subcommand, has_errors is set and
\* validation_result is "initialize failed:" followed by init's stderr.
C2_InitializeFailedMessage ==
    \A s \in Sessions :
        Exited(s, "init") /\ event.rc # 0
            => /\ pc[s] = "idle"
               /\ run[s].calls = <<"init">>
               /\ session_state[s].validated
               /\ session_state[s].has_errors
               /\ StartsWith(session_state[s].validation_result,
                             "initialize failed:")

\* C2 (amended): when terraform init has just exited non-zero, the Validate
\* is over without a validate subcommand, the verdict is a failure and
\* validation_result is "An error occurred during `terraform init`:" and a
\* newline, followed by init's stderr unchanged.
C2_InitFailureSkipsValidate ==
    \A s \in Sessions :
        Exited(s, "init") /\ event.rc # 0
            => /\ pc[s] = "idle"
               /\ run[s].calls = <<"init">>
               /\ session_state[s].validated
               /\ session_state[s].has_errors
               /\ session_state[s].validation_result =
                      "An error occurred during ~terraform init~:\n"
                          \o event.stderr

\* C2 witness: init failed with "network unreachable" on stderr and the
\* session shows it.
C2_Witness ==
    /\ Exited("s1", "init")
    /\ event.rc = 1
    /\ event.stderr = "network unreachable"
    /\ session_state["s1"].has_errors

-----------------------------------------------------------------------------
(* C3: the verdict of terraform validate                                    *)

\* C3: when terraform validate has just exited (init having exited zero),
\* exit code zero gives validated with has_errors = FALSE and the success
\* message, whatever stderr holds; any other exit code gives
\* has_errors = TRUE and validation_result equal to validate's stderr.
C3_VerdictFromExitCode ==
    \A s \in Sessions :
        Exited(s, "validate_cmd")
            => /\ run[s].calls = <<"init", "validate">>
               /\ session_state[s].validated
               /\ event.rc = 0
                    => /\ ~session_state[s].has_errors
                       /\ session_state[s].validation_result =
                              "Validation Successful: The configuration is valid."
               /\ event.rc # 0
                    => /\ session_state[s].has_errors
                       /\ session_state[s].validation_result = event.stderr

\* C3 witness: validate exited zero with text on stderr and the verdict is
\* a success.
C3_Witness ==
    /\ Exited("s1", "validate_cmd")
    /\ event.rc = 0
    /\ event.stderr # ""
    /\ ~session_state["s1"].has_errors
    /\ session_state["s1"].validated

-----------------------------------------------------------------------------
(* C4: the attempt budget of the completion request                         *)

\* The last step was a Generate or Correct of session s that called the
\* model service.
Requested(s) ==
    /\ event.session = s
    /\ event.action \in {"generate", "correct"}
    /\ event.requests > 0

\* C4 (as claimed): an action whose transport fails on attempts 1 and 2 and
\* answers attempt 3 ends successfully after 3 requests.
C4_ThirdAttemptSucceeds ==
    \A s \in Sessions :
        Requested(s) /\ event.transport = Script(2, "error")
            => /\ event.outcome \in {"ok", "malformed"}
               /\ event.requests = 3

\* C4 (amended): the completion request is issued exactly once per action:
\* if the first attempt is answered, the action ends successfully with
\* attempt = 1 and, for a well-formed completion, the draft replaced by the
\* extracted code; if the first attempt raises, that is the terminal failure
\* of the action, whatever later attempts would have given.
C4_SingleAttempt ==
    \A s \in Sessions :
        Requested(s)
            => /\ event.requests = 1
               /\ event.transport[1] = "ok"
                    => /\ event.outcome \in {"ok", "malformed"}
                       /\ event.outcome = "ok"
                            => session_state[s].terraform_code
                                   \in {"A = 1", "B = 2"}
               /\ event.transport[1] # "ok"
                    => /\ event.outcome = event.transport[1]
                       /\ "error" \in event.ui

\* C4 witness: the transport failed the first two attempts and would have
\* answered the third; the action failed after one request.
C4_Witness ==
    /\ Requested("s1")
    /\ event.transport = Script(2, "error")
    /\ event.outcome = "error"
    /\ event.requests = 1

-----------------------------------------------------------------------------
(* C5: a malformed completion                                               *)

\* C5 (as claimed): after a Generate or a Correct that received a malformed
\* completion, the draft is the 'no content' sentinel and an error is shown.
C5_MalformedGivesSentinel ==
    \A s \in Sessions :
        Requested(s) /\ event.outcome = "malformed"
            => /\ session_state[s].terraform_code = "# AI returned no content."
               /\ session_state[s].validation_result
                      # "AI has attempted to correct the code. Please validate again."
               /\ "error" \in event.ui

-----------------------------------------------------------------------------
(* C6: an exception of the model call commits nothing                       *)

\* C6: a Generate or Correct whose completion request raises (an
\* authentication error or any other exception) leaves terraform_code,
\* validation_result, has_errors and validated as they were and shows an
\* error.
C6_ExceptionCommitsNothing ==
    [][\A s \in Sessions :
          (Ran(s, "generate") \/ Ran(s, "correct"))
              /\ event'.outcome \in {"auth", "error"}
              => DraftAndVerdictKept(s) /\ "error" \in event'.ui]_vars

\* C6 witness: a Generate failed on an exception while the session held a
\* validated draft.
C6_Witness ==
    /\ event.session = "s1"
    /\ event.action = "generate"
    /\ event.outcome \in {"auth", "error"}
    /\ session_state["s1"].validated
    /\ session_state["s1"].terraform_code = "A = 1"

-----------------------------------------------------------------------------
(* C7: no credential, no request                                            *)

\* C7: without an API credential a Generate or Correct issues no completion
\* request and leaves the draft and the verdict as they were.
C7_NoKeyNoRequest ==
    [][\A s \in Sessions :
          (Ran(s, "generate") \/ Ran(s, "correct")) /\ openai_api_key = ""
              => event'.requests = 0 /\ DraftAndVerdictKept(s)]_vars

\* C7 witness: Correct was clicked without a credential, on a failed
\* validation.
C7_Witness ==
    /\ openai_api_key = ""
    /\ event.session = "s1"
    /\ event.action = "correct"
    /\ event.requests = 0
    /\ session_state["s1"].validated
    /\ session_state["s1"].has_errors

-----------------------------------------------------------------------------
(* C8: the validator executable is unavailable                              *)

\* The executable is known to be missing before the run: a path is cached
\* but the file is gone.
ExecutableMissing == terraform_cache # "" /\ ~terraform_exe_is_file

\* C8: a click on Validate while the executable is unavailable (missing
\* from disk, or not provisioned in this run) runs no subcommand, writes no
\* file and leaves the session state as it was; a click on Generate or
\* Correct in a state where the executable is missing still issues its
\* completion request when a credential (and a prompt) is there.
C8_UnavailableToolBlocksOnlyValidate ==
    [][\A s \in Sessions :
          /\ Ran(s, "validate")
                /\ (ExecutableMissing \/ event'.outcome = "unavailable")
                => /\ event'.outcome = "unavailable"
                   /\ session_state' = session_state
                   /\ main_tf' = main_tf
                   /\ pc'[s] = "idle"
                   /\ run' = run
          /\ (Ran(s, "generate") \/ Ran(s, "correct"))
                /\ ExecutableMissing /\ openai_api_key # ""
                /\ event'.outcome # "no_prompt"
                => event'.requests = 1]_vars

\* C8 witness: Validate was clicked with the executable missing, and the
\* main.tf of an earlier validation is still in place.
C8_Witness ==
    /\ event.session = "s1"
    /\ event.action = "validate"
    /\ event.outcome = "unavailable"
    /\ main_tf # <<>>
    /\ pc["s1"] = "idle"

-----------------------------------------------------------------------------
(* C9: one validation per working directory                                 *)

\* C9 (as claimed): while a session is between writing main.tf and
\* obtaining its verdict, no other session is, and the file holds what that
\* session wrote.
C9_OneValidationPerDirectory ==
    \A s \in Sessions :
        pc[s] # "idle"
            => /\ \A t \in Sessions \ {s} : pc[t] = "idle"
               /\ main_tf = run[s].written

-----------------------------------------------------------------------------
(* C10: the first fenced block                                              *)

\* Index of the first newline of t at or after i, Len(t) + 1 if none.
EndOfLine(t, i) ==
    LET ends == {j \in i..Len(t) : CharAt(t, j) = "\n"}
    IN  IF ends = {} THEN Len(t) + 1
        ELSE CHOOSE j \in ends : \A k \in ends : j <= k

\* i starts a line of t; j ends one.
StartsLine(t, i) == i = 1 \/ CharAt(t, i - 1) = "\n"
EndsLine(t, j) == j = Len(t) \/ CharAt(t, j + 1) = "\n"

\* An opening fence of t at i: three backticks and letters only up to the
\* end of the line; with lines, only at the start of a line.
Opens(t, i, lines) ==
    /\ StartsWithAt(t, Fence, i)
    /\ lines => StartsLine(t, i)
    /\ EndOfLine(t, i) <= Len(t)
    /\ \A j \in (i + 3)..(EndOfLine(t, i) - 1) : CharAt(t, j) \in Letters

\* A closing fence of t after the newline at m: three backticks; with lines,
\* being the whole line.
Closes(t, m, lines) ==
    /\ CharAt(t, m) = "\n"
    /\ StartsWithAt(t, Fence, m + 1)
    /\ lines => EndsLine(t, m + 3)

\* The newlines before the closing fences that can end a block opened at i.
Closings(t, i, lines) ==
    {m \in (EndOfLine(t, i) + 1)..Len(t) : Closes(t, m, lines)}

\* The openings of the fenced blocks of t.
Blocks(t, lines) ==
    {i \in 1..Len(t) : Opens(t, i, lines) /\ Closings(t, i, lines) # {}}

\* The body of the first fenced block of t: from the line after the first
\* opening to the newline before its first closing fence.
FirstBody(t, lines) ==
    LET B == Blocks(t, lines)
        i == CHOOSE b \in B : \A c \in B : b <= c
        M == Closings(t, i, lines)
        m == CHOOSE a \in M : \A c \in M : a <= c
    IN  SubSeq(t, EndOfLine(t, i) + 1, m - 1)

\* Both handlers have stored the draft d for the message content.
BothExtracted(d) ==
    /\ extracted # <<>>
    /\ extracted[1].generate = d
    /\ extracted[1].correct = d

\* C10 (as claimed): when the message content holds a fenced block whose
\* fences are lines of their own -- a line of three backticks and an
\* optional alphabetic tag, a body, a newline, a line of three backticks --
\* both handlers store the trimmed body of the first such block.
C10_FirstBlockOfFenceLines ==
    extracted # <<>> /\ Blocks(content, TRUE) # {}
        => BothExtracted(strip(FirstBody(content, TRUE)))

\* C10 (amended): when the message content holds three backticks, an
\* optional alphabetic tag and a newline, followed later by a newline and
\* three backticks, both handlers store the trimmed text between the first
\* such opening and the first closing after it, wherever on their lines the
\* two fences stand; the tag, the text around the block and later blocks
\* are left out.
C10_FirstFencedBlock ==
    extracted # <<>> /\ Blocks(content, FALSE) # {}
        => BothExtracted(strip(FirstBody(content, FALSE)))

\* C10 witness: two fenced blocks, the closing fence of the first opening
\* the second; the draft is the first body.
C10_Witness ==
    /\ content = "~~~\na\n~~~\n\n~~~"
    /\ Blocks(content, FALSE) = {1, 7}
    /\ BothExtracted("a")

-----------------------------------------------------------------------------
(* C11: a message content without fences                                    *)

\* The text t holds three backticks somewhere.
HasFence(t) == \E i \in 1..Len(t) : StartsWithAt(t, Fence, i)

\* Both handlers have shown the warning of the fallback branch.
BothWarned ==
    /\ "warning" \in extracted[1].generate_ui
    /\ "warning" \in extracted[1].correct_ui

\* Neither handler has shown the warning of the fallback branch.
NeitherWarned ==
    /\ "warning" \notin extracted[1].generate_ui
    /\ "warning" \notin extracted[1].correct_ui

\* C11 (as claimed): for a non-empty message content without three
\* backticks, both handlers store the content trimmed of leading and
\* trailing whitespace and show no warning; for a content without a fenced
\* block, the warning is shown only if removing the fence-like prefix and
\* suffix changed the trimmed content.
C11_NoWarningWithoutFences ==
    extracted # <<>> /\ content # ""
        => /\ ~HasFence(content)
                => BothExtracted(strip(content)) /\ NeitherWarned
           /\ "warning" \in extracted[1].generate_ui
                    \cup extracted[1].correct_ui
                => extracted[1].generate # strip(content)

\* C11 (amended): for a non-empty message content without three backticks,
\* both handlers store the content trimmed of leading and trailing
\* whitespace and otherwise unchanged; both show the warning for every
\* non-empty content in which no fenced block is found, whether or not the
\* removal of a fence-like prefix or suffix changed anything, and neither
\* shows it when a fenced block is found.
C11_UnfencedTrimmedAndWarned ==
    extracted # <<>> /\ content # ""
        => /\ ~HasFence(content) => BothExtracted(strip(content))
           /\ Blocks(content, FALSE) = {} => BothWarned
           /\ Blocks(content, FALSE) # {} => NeitherWarned

\* C11 witness: a content of letters with blanks around them and no fence;
\* the draft is the content trimmed and the warning was shown.
C11_Witness ==
    /\ content = " a a\n"
    /\ BothExtracted("a a")
    /\ BothWarned

-----------------------------------------------------------------------------
(* C12: the sanitization is idempotent                                      *)

\* C12: sanitizing the sanitized text once more gives the same text, for
\* every typed text.
C12_SanitizeIdempotent ==
    sanitized # <<>> => sanitize(sanitized[1]) = sanitized[1]

\* C12 witness: a text in which every replacement applied, next to a
\* character the sanitization leaves alone.
C12_Witness ==
    /\ typed = <<LeftDoubleQuote, RightSingleQuote, EmDash, EnDash>>
    /\ sanitized = <<"\"'-^">>

-----------------------------------------------------------------------------
(* C13: the sanitized text is ASCII                                         *)

\* The characters of the model that stand for characters outside ASCII.
NonAscii ==
    {LeftDoubleQuote, RightDoubleQuote, LeftSingleQuote, RightSingleQuote,
     EmDash, EnDash, Nbsp, EAcute}

\* What C13 says becomes of one typed character.
ClaimedFor(char) ==
    IF char \in {LeftDoubleQuote, RightDoubleQuote} THEN "\""
    ELSE IF char \in {LeftSingleQuote, RightSingleQuote} THEN "'"
    ELSE IF char = EmDash THEN "--"
    ELSE IF char = EnDash THEN "-"
    ELSE IF char \in NonAscii THEN ""
    ELSE char

\* C13 (as claimed): the sanitized text holds no character outside ASCII:
\* the curly quotes have become straight quotes, an em-dash "--", an
\* en-dash "-", and every other character outside ASCII is gone.
C13_SanitizedIsAscii ==
    sanitized # <<>>
        => /\ \A i \in 1..Len(sanitized[1]) :
                  CharAt(sanitized[1], i) \notin NonAscii
           /\ sanitized[1] =
                  Join([i \in 1..Len(typed) |-> ClaimedFor(typed[i])])

-----------------------------------------------------------------------------
(* C14: the order of the steps of a Validate                                *)

\* C14: a Validate that reaches terraform first overwrites main.tf with
\* exactly the current draft, before any subcommand; terraform init is the
\* first subcommand and runs after that write; terraform validate runs only
\* as the second subcommand, right after terraform init has exited with
\* code zero, the draft being still the text written.
C14_ValidateStepsInOrder ==
    [][\A s \in Sessions :
          /\ Ran(s, "validate") /\ event'.outcome = "written"
                => /\ main_tf' = <<session_state[s].terraform_code>>
                   /\ run'[s].written = main_tf'
                   /\ run'[s].calls = <<>>
          /\ Ran(s, "init") /\ event'.outcome = "exit"
                => /\ run[s].calls = <<>>
                   /\ run[s].written = <<session_state[s].terraform_code>>
                   /\ run'[s].calls = <<"init">>
          /\ Ran(s, "validate_cmd") /\ event'.outcome = "exit"
                => /\ run[s].calls = <<"init">>
                   /\ Exited(s, "init") /\ event.rc = 0
                   /\ run[s].written = <<session_state[s].terraform_code>>
                   /\ run'[s].calls = <<"init", "validate">>]_vars

\* C14 witness: a Validate of an edited draft has run both subcommands and
\* main.tf holds that draft.
C14_Witness ==
    /\ Exited("s1", "validate_cmd")
    /\ run["s1"] = [written |-> <<"C = 3">>, calls |-> <<"init", "validate">>]
    /\ main_tf = <<"C = 3">>
    /\ session_state["s1"].terraform_code = "C = 3"

-----------------------------------------------------------------------------
(* C15: an authentication failure                                           *)

\* C15: a Generate or Correct whose completion request meets an
\* authentication error has issued exactly one request, whatever the
\* service would have answered to later ones, and has ended in the
\* authentication clause: its message is the authentication message (and a
\* Generate leaves the authentication text in raw_response_debug), which a
\* request meeting any other exception never shows.
C15_AuthFailsAtOnce ==
    \A s \in Sessions :
        Requested(s)
            => /\ event.transport[1] = "auth"
                    => /\ event.requests = 1
                       /\ event.outcome = "auth"
                       /\ event.except_message =
                              "Authentication Error: The OpenAI API key is invalid or has expired."
                       /\ event.action = "generate"
                            => session_state[s].raw_response_debug =
                                   "Authentication failed. Check your API key."
               /\ event.transport[1] = "error"
                    => /\ event.outcome = "error"
                       /\ event.except_message \notin
                              {"", "Authentication Error: The OpenAI API key is invalid or has expired."}
                       /\ event.action = "generate"
                            => session_state[s].raw_response_debug
                                   # "Authentication failed. Check your API key."

\* C15 witness: a Correct met an authentication error from a service that
\* would have answered the second request; one request was issued.
C15_Witness ==
    /\ Requested("s1")
    /\ event.action = "correct"
    /\ event.transport = Script(1, "auth")
    /\ event.requests = 1
    /\ event.outcome = "auth"

-----------------------------------------------------------------------------
(* C16: blanks between the backticks and the language tag                   *)

\* Whitespace other than the newline.
Blanks == {" ", Nbsp}

\* The index after the blanks that follow the opening backticks of t.
TagStart(t) == SkipClass(t, 4, Blanks)

\* t opens with three backticks, a run of blanks holding a non-breaking
\* space, an alphabetic tag and a newline, and has a closing fence later.
SpacedOpening(t) ==
    /\ StartsWith(t, Fence)
    /\ \E i \in 4..(TagStart(t) - 1) : CharAt(t, i) = Nbsp
    /\ SkipClass(t, TagStart(t), Letters) > TagStart(t)
    /\ CharAt(t, SkipClass(t, TagStart(t), Letters)) = "\n"
    /\ Closings(t, 1, FALSE) # {}

\* The body of that block: from the line after the opening to the newline
\* before the first closing fence.
SpacedBody(t) ==
    LET M == Closings(t, 1, FALSE)
        m == CHOOSE a \in M : \A c \in M : a <= c
    IN  SubSeq(t, EndOfLine(t, 1) + 1, m - 1)

\* C16 (as claimed): for a message content whose opening fence has
\* non-breaking spaces between the three backticks and the language tag,
\* both handlers store the trimmed body of the block, without the tag and
\* without fence characters.
C16_SpacedFenceStillMatched ==
    extracted # <<>> /\ SpacedOpening(content)
        => BothExtracted(strip(SpacedBody(content)))

-----------------------------------------------------------------------------
(* C17: when Correct with AI can be clicked                                 *)

\* The Correct with AI button of session s can be clicked: no script run of
\* the session is under way and the button is enabled.
CorrectClickable(s) ==
    /\ pc[s] = "idle"
    /\ session_state[s].validated
    /\ session_state[s].has_errors

\* The step just taken ended a Validate of session s with a failed verdict:
\* terraform init or terraform validate exited non-zero.
ValidateFailed(s) ==
    /\ Ran(s, "init") \/ Ran(s, "validate_cmd")
    /\ event'.outcome = "exit"
    /\ event'.rc # 0

\* C17 (as claimed): a Correct issues a completion request only from a
\* state with validated and has_errors both set; a Generate that commits a
\* draft and a Correct that completes leave Correct disabled; and Correct
\* becomes clickable only by a step that ends a Validate with a failed
\* verdict.
C17_CorrectOnlyAfterFailedValidation ==
    [][\A s \in Sessions :
          /\ Ran(s, "correct") /\ event'.requests > 0
                => session_state[s].validated /\ session_state[s].has_errors
          /\ (Ran(s, "generate") \/ Ran(s, "correct"))
                /\ event'.outcome \in {"ok", "malformed"}
                => ~CorrectClickable(s)'
          /\ ~CorrectClickable(s) /\ CorrectClickable(s)'
                => ValidateFailed(s)]_vars

-----------------------------------------------------------------------------
(* C18: no validation of an empty draft or a comment                        *)

\* The text is empty or its first character is '#'.
NotValidatable(code) == code = "" \/ CharAt(code, 1) = "#"

\* The step just taken is a step of a Validate of session s that reaches
\* the file or terraform.
TouchesValidator(s) ==
    \/ Ran(s, "validate") /\ event'.outcome # "unavailable"
    \/ Ran(s, "init")
    \/ Ran(s, "validate_cmd")

\* C18: no step of a Validate writes main.tf or runs a terraform subcommand
\* for a draft that is empty or begins with '#', and main.tf never comes
\* to hold such a text, whatever generate, edit, validate and correct
\* steps came before.
C18_NoValidationOfComment ==
    [][/\ \A s \in Sessions :
             TouchesValidator(s)
                 => ~NotValidatable(session_state[s].terraform_code)
       /\ main_tf' # <<>> => ~NotValidatable(main_tf'[1])]_vars

\* C18 witness: the draft is the 'no content' sentinel of a later Generate,
\* after a Validate of an earlier draft; main.tf still holds that draft.
C18_Witness ==
    /\ session_state["s1"].terraform_code = "# AI returned no content."
    /\ event.session = "s1"
    /\ event.action = "generate"
    /\ main_tf = <<"A = 1">>
    /\ run["s1"].calls = <<"init", "validate">>

-----------------------------------------------------------------------------
(* C19: the state shown as Validation Successful                            *)

\* C19 (as claimed): whenever a session at rest has validated set and
\* has_errors clear, validation_result is the success message and the
\* session's last Validate ran terraform init and terraform validate to
\* the end; a Validate cut short by an exception does not leave that state.
C19_SuccessStateIsGenuine ==
    \A s \in Sessions :
        /\ pc[s] = "idle"
        /\ session_state[s].validated
        /\ ~session_state[s].has_errors
        => /\ session_state[s].validation_result =
                  "Validation Successful: The configuration is valid."
           /\ run[s].calls = <<"init", "validate">>

====
